---- MODULE Spec2Model ----
(***************************************************************************)
(* Model of pkg/bigint: NewBigInt (decimal string -> limbs), String,       *)
(* Length and Add, as called by a client that keeps the values it made.    *)
(*                                                                         *)
(* A decimal string is a sequence of one-character strings.  A uint32 is   *)
(* the record [q, r] standing for q * 10^9 + r with 0 <= r < 10^9 and      *)
(* q * 10^9 + r < 2^32: TLC's integers are 32-bit signed and cannot hold   *)
(* the upper half of the uint32 range, so the two base-10^9 digits are     *)
(* kept apart and the arithmetic below wraps modulo 2^32 as Go's does.     *)
(* Slices are addresses into heap, so that aliasing is observable.         *)
(***************************************************************************)
EXTENDS Integers, Sequences, FiniteSets

VARIABLES heap, vals, origin, last

vars == <<heap, vals, origin, last>>

\* ----------------------------------------------------------------- bounds

\* Number of BigInt values the client creates in one run.
MaxVals == 4

\* Number of pieces concatenated into an input text of the codec runs.
MaxPieces == 3

\* -------------------------------------------------------------- constants

chunkSize == 9

ErrInvalidIntegerNumber == "invalid integer number"

ErrConvertingChunkToInteger == "error converting chunk to integer"

NoError == "nil"

\* --------------------------------------------------------------- strings

DigitChars == <<"0", "1", "2", "3", "4", "5", "6", "7", "8", "9">>

IsDigit(c) == \E k \in 1..Len(DigitChars) : DigitChars[k] = c

DigitVal(c) == (CHOOSE k \in 1..Len(DigitChars) : DigitChars[k] = c) - 1

DigitChar(d) == DigitChars[d + 1]

Rep(c, n) == [k \in 1..n |-> c]

\* ---------------------------------------------------------------- uint32

U32Base == 10 ^ 9

\* 2^32 = 4 * 2^30, written in base 10^9: 4 * 10^9 + 294967296.
U32WrapQ == 4 * ((2 ^ 30) \div U32Base) + (4 * ((2 ^ 30) % U32Base)) \div U32Base

U32WrapR == (4 * ((2 ^ 30) % U32Base)) % U32Base

\* uint32(n) for 0 <= n < 2^31.
U32(n) == [q |-> n \div U32Base, r |-> n % U32Base]

U32Less(a, b) == a.q < b.q \/ (a.q = b.q /\ a.r < b.r)

\* The exact (unwrapped) sum of two base-10^9 pairs.
ExactAdd(a, b) ==
    LET r0 == a.r + b.r
        c  == IF r0 >= U32Base THEN 1 ELSE 0
    IN  [q |-> a.q + b.q + c, r |-> r0 - c * U32Base]

Overflows32(x) == x.q > U32WrapQ \/ (x.q = U32WrapQ /\ x.r >= U32WrapR)

\* x modulo 2^32, for x < 2^33.
Wrap32(x) ==
    IF ~Overflows32(x) THEN x
    ELSE IF x.r >= U32WrapR
         THEN [q |-> x.q - U32WrapQ, r |-> x.r - U32WrapR]
         ELSE [q |-> x.q - U32WrapQ - 1, r |-> x.r + U32Base - U32WrapR]

\* Go's + on uint32.
U32Add(a, b) == Wrap32(ExactAdd(a, b))

\* Go's sum++ on uint32.
U32Inc(a) == U32Add(a, U32(1))

\* uint32(math.Pow10(n)) for 0 <= n <= 9.
Pow10(n) == 10 ^ n

\* Go's sum %= m on uint32, for 1 <= m <= 10^9.
U32Mod(a, m) == U32(((a.q * (U32Base % m)) + (a.r % m)) % m)

RECURSIVE DecDigits(_)
\* The decimal digits of n >= 0, without padding.
DecDigits(n) ==
    IF n < 10 THEN <<DigitChar(n)>>
    ELSE Append(DecDigits(n \div 10), DigitChar(n % 10))

\* strconv.FormatUint(uint64(chunk), 10)
FormatUint(a) ==
    IF a.q = 0 THEN DecDigits(a.r)
    ELSE LET low == DecDigits(a.r)
         IN  DecDigits(a.q) \o Rep("0", chunkSize - Len(low)) \o low

\* ----------------------------------------------------------- utils (callees)

\* utils.CountDigits(int64(sum)): the number of decimal digits of sum.
CountDigits(a) == Len(FormatUint(a))

RECURSIVE ChunkString(_, _)
\* utils.ChunkString(value, size): groups of size characters, the first group
\* holding Len(value) modulo size characters when that is not zero.
ChunkString(value, size) ==
    IF Len(value) = 0 THEN <<>>
    ELSE LET first == IF Len(value) % size = 0 THEN size ELSE Len(value) % size
         IN  <<SubSeq(value, 1, first)>>
                 \o ChunkString(SubSeq(value, first + 1, Len(value)), size)

RECURSIVE DecValue(_)
\* The number a string of at most 9 digits denotes.
DecValue(chunk) ==
    IF Len(chunk) = 0 THEN 0
    ELSE 10 * DecValue(SubSeq(chunk, 1, Len(chunk) - 1)) + DigitVal(chunk[Len(chunk)])

\* utils.StringToUint32(chunk): the uint32 the digits denote; an error when
\* the text is not a decimal number or does not fit 32 bits.
StringToUint32(chunk) ==
    LET n     == Len(chunk)
        cut   == IF n > chunkSize THEN n - chunkSize ELSE 0
        head  == SubSeq(chunk, 1, cut)
        tail  == SubSeq(chunk, cut + 1, n)
        isNum == n >= 1 /\ \A k \in 1..n : IsDigit(chunk[k])
        small == \A k \in 1..(cut - 1) : head[k] = "0"
        value == [q |-> IF cut = 0 THEN 0 ELSE DigitVal(head[cut]),
                  r |-> DecValue(tail)]
    IN  IF isNum /\ small /\ ~Overflows32(value)
        THEN [ok |-> TRUE, val |-> value]
        ELSE [ok |-> FALSE, val |-> U32(0)]

\* ----------------------------------------------------------------- codec

RECURSIVE DigitRun(_, _)
\* The length of the longest run of [0-9] that starts at position k.
DigitRun(value, k) ==
    IF k > Len(value) \/ ~IsDigit(value[k]) THEN 0
    ELSE 1 + DigitRun(value, k + 1)

\* The pattern without its anchors: [0-9]+ found anywhere in the text.
MatchUnanchored(value) == \E k \in 1..Len(value) : DigitRun(value, k) >= 1

\* regexp.MatchString("^[0-9]+$", value): one or more digits from the start
\* of the text to its end.
IntegerNumberMatch(value) ==
    DigitRun(value, 1) >= 1 /\ DigitRun(value, 1) = Len(value)

\* NewBigInt(value) on heap h: [heap, err, big]; big is meaningful only when
\* err is nil.
NewBigInt(h, value) ==
    LET chunks    == ChunkString(value, chunkSize)
        conv      == [k \in 1..Len(chunks) |-> StringToUint32(chunks[k])]
        magnitude == [k \in 1..Len(chunks) |-> conv[k].val]
        h1        == Append(h, magnitude)
    IN  IF ~IntegerNumberMatch(value)
        THEN [heap |-> h, err |-> ErrInvalidIntegerNumber,
              big |-> [magnitude |-> 0, length |-> 0, chukSize |-> 0]]
        ELSE IF \E k \in 1..Len(chunks) : ~conv[k].ok
        THEN [heap |-> h1, err |-> ErrConvertingChunkToInteger,
              big |-> [magnitude |-> 0, length |-> 0, chukSize |-> 0]]
        ELSE [heap |-> h1, err |-> NoError,
              big |-> [magnitude |-> Len(h1), length |-> Len(value),
                       chukSize |-> chunkSize]]

\* BigInt.Length
Length(b) == b.length

RECURSIVE Concat(_)
Concat(parts) ==
    IF Len(parts) = 0 THEN <<>> ELSE Head(parts) \o Concat(Tail(parts))

\* BigInt.String on heap h.
String(h, b) ==
    Concat([k \in 1..Len(h[b.magnitude]) |-> FormatUint(h[b.magnitude][k])])

\* -------------------------------------------------------------------- Add

\* The result aliasing the longer operand's array instead of a fresh one.
MakeResultAliased(h, lhs) == [heap |-> h, addr |-> lhs]

\* result := &BigInt{magnitude: make([]uint32, len(lhs))}
MakeResult(h, lhs) ==
    [heap |-> Append(h, Rep(U32(0), Len(h[lhs]))), addr |-> Len(h) + 1]

RECURSIVE AddLoop(_, _, _, _, _, _, _, _)
\* The for loop of Add from offset on: [heap, carry, trace], where trace
\* lists, per position, the two chunks and the carry that were added.
AddLoop(h, lhs, rhs, res, chuk, offset, carry, trace) ==
    IF offset > Len(h[lhs]) THEN [heap |-> h, carry |-> carry, trace |-> trace]
    ELSE LET index     == Len(h[lhs]) - offset
             lhsChunk  == h[lhs][index + 1]
             rhsChunk  == IF index < Len(h[rhs]) THEN h[rhs][index + 1] ELSE U32(0)
             sum0      == U32Add(lhsChunk, rhsChunk)
             sum1      == IF carry THEN U32Inc(sum0) ELSE sum0
             sumDigits == CountDigits(sum1)
             carry1    == sumDigits > chuk
             sum2      == IF carry1 THEN U32Mod(sum1, Pow10(chuk)) ELSE sum1
             h1        == [h EXCEPT ![res][index + 1] = sum2]
             step      == [index |-> index, lhsChunk |-> lhsChunk,
                           rhsChunk |-> rhsChunk, carry |-> carry]
         IN  AddLoop(h1, lhs, rhs, res, chuk, offset + 1, carry1,
                     Append(trace, step))

\* b.Add(other) on heap h: [heap, big, lhs, rhs, trace]; lhs and rhs are the
\* arrays the code took as the longer and the shorter operand.
Add(h, b, other) ==
    LET swap == Length(b) < Length(other)
        lhs  == IF swap THEN other.magnitude ELSE b.magnitude
        rhs  == IF swap THEN b.magnitude ELSE other.magnitude
        made == MakeResult(h, lhs)
        res  == made.addr
        one  == [index |-> 0, lhsChunk |-> made.heap[lhs][1],
                 rhsChunk |-> made.heap[rhs][1], carry |-> FALSE]
        loop == AddLoop(made.heap, lhs, rhs, res, b.chukSize, 1, FALSE, <<>>)
        grown == Append(loop.heap, <<U32(1)>> \o loop.heap[res])
    IN  IF Len(made.heap[lhs]) = 1
        THEN [heap |-> [made.heap EXCEPT ![res][1] =
                            U32Add(made.heap[lhs][1], made.heap[rhs][1])],
              big |-> [magnitude |-> res, length |-> 0, chukSize |-> 0],
              lhs |-> lhs, rhs |-> rhs, trace |-> <<one>>]
        ELSE IF loop.carry
        THEN [heap |-> grown,
              big |-> [magnitude |-> Len(grown), length |-> 0, chukSize |-> 0],
              lhs |-> lhs, rhs |-> rhs, trace |-> loop.trace]
        ELSE [heap |-> loop.heap,
              big |-> [magnitude |-> res, length |-> 0, chukSize |-> 0],
              lhs |-> lhs, rhs |-> rhs, trace |-> loop.trace]

\* ----------------------------------------------------------------- inputs

Nine(c) == Rep(c, chunkSize)

OneToNine == [k \in 1..chunkSize |-> DigitChar(k)]

\* The operands of the addition runs: "0", "1", "999", "999999999",
\* "1000000000" and "123456789000000001".
Operands ==
    { <<"0">>, <<"1">>, Rep("9", 3), Nine("9"),
      <<"1">> \o Nine("0"),
      OneToNine \o Rep("0", chunkSize - 1) \o <<"1">> }

Pieces ==
    { <<"0">>, <<"1">>, <<"a">>, <<"-">>, <<"\n">>, <<"4", "2">>,
      Rep("9", 3), Nine("9"), Nine("0"), OneToNine,
      Rep("0", chunkSize - 1) \o <<"1">> }

RECURSIVE Texts(_)
\* The texts made of at most n pieces.
Texts(n) ==
    IF n = 0 THEN {<<>>}
    ELSE Texts(n - 1) \cup {t \o p : t \in Texts(n - 1), p \in Pieces}

TextInputs == Texts(MaxPieces)

\* ---------------------------------------------------------- state machine

\* type BigInt struct { magnitude []uint32; length int; chukSize int }, with
\* the slice held as the address of its array in heap.
TypeOK ==
    /\ \A a \in 1..Len(heap) : \A n \in 1..Len(heap[a]) :
          /\ heap[a][n].q \in 0..U32WrapQ
          /\ heap[a][n].r \in 0..(U32Base - 1)
          /\ ~Overflows32(heap[a][n])
    /\ \A k \in 1..Len(vals) :
          /\ vals[k].magnitude \in 1..Len(heap)
          /\ vals[k].length \in Nat
          /\ vals[k].chukSize \in Nat
    /\ Len(origin) = Len(vals)

NoCall ==
    [op |-> "none", text |-> <<>>, err |-> NoError, res |-> 0,
     a |-> 0, b |-> 0, lhs |-> 0, rhs |-> 0, trace |-> <<>>]

Init ==
    /\ heap = <<>>
    /\ vals = <<>>
    /\ origin = <<>>
    /\ last = NoCall

\* big, err := NewBigInt(s); the client keeps big when err is nil.
NewBigIntCall(s) ==
    /\ Len(vals) < MaxVals
    /\ LET r  == NewBigInt(heap, s)
           ok == r.err = NoError
       IN  /\ heap' = r.heap
           /\ vals' = IF ok THEN Append(vals, r.big) ELSE vals
           /\ origin' = IF ok THEN Append(origin, s) ELSE origin
           /\ last' = [NoCall EXCEPT !.op = "NewBigInt", !.text = s,
                          !.err = r.err,
                          !.res = IF ok THEN Len(vals) + 1 ELSE 0]

\* sum := vals[i].Add(&vals[j]); the client keeps sum.
AddCall(i, j) ==
    /\ Len(vals) < MaxVals
    /\ LET r == Add(heap, vals[i], vals[j])
       IN  /\ heap' = r.heap
           /\ vals' = Append(vals, r.big)
           /\ origin' = Append(origin, <<>>)
           /\ last' = [NoCall EXCEPT !.op = "Add", !.a = i, !.b = j,
                          !.res = Len(vals) + 1, !.lhs = r.lhs, !.rhs = r.rhs,
                          !.trace = r.trace]

\* The codec alone: one NewBigInt call on any input text.
CodecCall(s) == last = NoCall /\ NewBigIntCall(s)

Next ==
    \/ \E s \in Operands : NewBigIntCall(s)
    \/ \E i, j \in 1..Len(vals) : AddCall(i, j)

NextCodec == \E s \in TextInputs : CodecCall(s)

Spec == Init /\ [][Next]_vars

SpecCodec == Init /\ [][NextCodec]_vars

\* ------------------------------------------------------------- references

\* The limbs of the k-th value the client holds.
Limbs(k) == heap[vals[k].magnitude]

\* The k-th value came from NewBigInt (and origin[k] is its text).
Parsed(k) == origin[k] # <<>>

\* The digit d places from the right end of s, 0 beyond its left end.
DigitFromEnd(s, d) == IF d <= Len(s) THEN DigitVal(s[Len(s) - d + 1]) ELSE 0

RECURSIVE DecSumFrom(_, _, _, _)
\* Schoolbook addition of two digit strings from place d on, carry c.
DecSumFrom(s, t, d, c) ==
    IF d > Len(s) /\ d > Len(t) THEN (IF c = 1 THEN <<"1">> ELSE <<>>)
    ELSE LET x == DigitFromEnd(s, d) + DigitFromEnd(t, d) + c
         IN  Append(DecSumFrom(s, t, d + 1, x \div 10), DigitChar(x % 10))

\* The decimal sum of two digit strings.
DecSum(s, t) == DecSumFrom(s, t, 1, 0)

\* The digits a limb sequence denotes: the leading limb as it is, every other
\* limb zero-padded to chunkSize digits.
Denoted(limbs) ==
    Concat([k \in 1..Len(limbs) |->
               LET d == FormatUint(limbs[k])
               IN  IF k = 1 \/ Len(d) >= chunkSize THEN d
                   ELSE Rep("0", chunkSize - Len(d)) \o d])

\* The exact sum a step of Add's loop computes, before any wrap.
StepSum(st) ==
    ExactAdd(ExactAdd(st.lhsChunk, st.rhsChunk), U32(IF st.carry THEN 1 ELSE 0))

\* ----------------------------------------------------------------- claims

\* C1: Add pairs limbs by significance: for two values parsed from valid
\* digit strings, at every position the limb of the shorter operand that is
\* added is the one as far from the least-significant end as the longer
\* operand's limb (zero when there is none), and the digits the result's
\* limbs denote are the decimal sum of the two inputs.
C1_AddPairsBySignificance ==
    (last.op = "Add" /\ Parsed(last.a) /\ Parsed(last.b)) =>
        /\ \A n \in 1..Len(last.trace) :
              LET st      == last.trace[n]
                  fromEnd == Len(heap[last.lhs]) - st.index
                  short   == heap[last.rhs]
              IN  st.rhsChunk = IF fromEnd <= Len(short)
                                THEN short[Len(short) - fromEnd + 1]
                                ELSE U32(0)
        /\ Denoted(Limbs(last.res)) = DecSum(origin[last.a], origin[last.b])

\* C2: round trip: for every text NewBigInt accepts, String of the value is
\* the text, character for character.  Stated for the texts that do not
\* start with a redundant zero, whose leading group a limb can hold as
\* written, so that only the rendering of the limbs decides it.
C2_RoundTrip ==
    (/\ last.op = "NewBigInt"
     /\ last.err = NoError
     /\ (Len(last.text) = 1 \/ last.text[1] # "0")) =>
        String(heap, vals[last.res]) = last.text

\* C3: NewBigInt fails exactly when the text is empty or holds a character
\* that is not one of 0-9; it then returns ErrInvalidIntegerNumber and no
\* value, and otherwise a value and no error.
C3_FailsIffNotDigits ==
    last.op = "NewBigInt" =>
        LET bad == \/ Len(last.text) = 0
                   \/ \E k \in 1..Len(last.text) :
                         last.text[k] \notin
                             {"0", "1", "2", "3", "4", "5", "6", "7", "8", "9"}
        IN  /\ bad => (last.err = ErrInvalidIntegerNumber /\ last.res = 0
                          /\ vals = <<>>)
            /\ ~bad => (last.err = NoError /\ last.res = 1 /\ Len(vals) = 1)

\* C3 witness: a text that mixes digits and other characters was rejected.
C3_Witness ==
    /\ last.op = "NewBigInt"
    /\ last.err = ErrInvalidIntegerNumber
    /\ \E j, k \in 1..Len(last.text) :
          IsDigit(last.text[j]) /\ ~IsDigit(last.text[k])

\* C4: Add is commutative on rendered results: a.Add(b) and b.Add(a) render
\* the same text, whether a and b came from NewBigInt or from Add.
C4_AddCommutes ==
    last.op = "Add" =>
        LET other == Add(heap, vals[last.b], vals[last.a])
        IN  String(heap, vals[last.res]) = String(other.heap, other.big)

\* C5: additive identity: NewBigInt("0").Add(NewBigInt(s)) renders s.
C5_ZeroIsIdentity ==
    (last.op = "Add" /\ origin[last.a] = <<"0">> /\ Parsed(last.b)) =>
        String(heap, vals[last.res]) = origin[last.b]

\* C6: when the sum at the leading position has more than 9 digits, the
\* result has one limb more than the longer operand, its leading limb is 1
\* and the limb below holds the sum modulo 10^9.
C6_CarryOutOfLeadingLimb ==
    (last.op = "Add" /\ StepSum(last.trace[Len(last.trace)]).q >= 1) =>
        LET top == StepSum(last.trace[Len(last.trace)])
        IN  /\ Len(Limbs(last.res)) = Len(heap[last.lhs]) + 1
            /\ Limbs(last.res)[1] = U32(1)
            /\ Limbs(last.res)[2] = U32(top.r)

\* C7: the digit count of a sum is the length of its rendered text.
C7_SumLengthIsRenderedLength ==
    last.op = "Add" =>
        Length(vals[last.res]) = Len(String(heap, vals[last.res]))

\* C8: Add never mutates its operands: across every Add step the fields and
\* the limbs of both operands are what they were, and the result's limbs are
\* stored apart from both operands' limbs.
C8_AddLeavesOperands ==
    [][last'.op = "Add" =>
          \A k \in {last'.a, last'.b} :
              /\ vals'[k] = vals[k]
              /\ heap'[vals[k].magnitude] = heap[vals[k].magnitude]
              /\ vals'[last'.res].magnitude # vals[k].magnitude]_vars

\* C8 witness: an Add that prepended a carry limb has returned.
C8_Witness ==
    /\ last.op = "Add"
    /\ Len(Limbs(last.res)) = Len(heap[last.lhs]) + 1

\* C9: every value has at least one limb and no limb above 999,999,999.
C9_LimbsWithinWidth ==
    \A k \in 1..Len(vals) :
        /\ Len(Limbs(k)) >= 1
        /\ \A n \in 1..Len(Limbs(k)) : Limbs(k)[n].q = 0

\* C10: no per-position sum lhsLimb + rhsLimb + carryIn of Add exceeds
\* 2^32 - 1, so that no stored limb is a wrapped sum.
C10_NoWraparound ==
    last.op = "Add" =>
        \A n \in 1..Len(last.trace) : ~Overflows32(StepSum(last.trace[n]))

====
